---------------------------- MODULE Spec2Model ----------------------------
(***************************************************************************)
(* Model of emtechscan.py's ExternalOCREngine: the image normalisation     *)
(* (_preprocess_image) and the engine dispatch (recognize) with its        *)
(* temporary files, the executables on PATH and the external process.      *)
(*                                                                         *)
(* Spec      one recognize call, from every directory content and PATH,    *)
(*           with every input and every behaviour of the engine           *)
(* SpecConc  two recognize calls that interleave                           *)
(* SpecPre   _preprocess_image on small rasters                            *)
(***************************************************************************)
EXTENDS Integers, Sequences, FiniteSets, TLC

VARIABLES
    env,        \* the input domains of the run: callers, engines, languages, texts
    path,       \* the executables shutil.which resolves
    fs,         \* the temporary directory: name -> file (or NoFile)
    pc,         \* each caller's position in recognize
    engine,     \* self.engine of the caller's ExternalOCREngine
    language,   \* self.language
    source,     \* what img_path holds: "image" or "garbage"
    tmp_img,    \* local tmp_img of recognize
    out_path,   \* local out_path of recognize
    proc,       \* the external process of the call (subprocess.run)
    text,       \* local text of recognize
    exc,        \* the exception propagating through the finally blocks
    result,     \* how the call ended: returned value or raised exception
    log,        \* history of the call: the steps taken, in order
    created,    \* history of the call: the temporary files it created
    availAtCall,\* history of the call: was the engine on PATH when recognize was entered
    img,        \* _preprocess_image: local img (from the start: what imread will return)
    thresh,     \* _preprocess_image: local thresh
    angle,      \* _preprocess_image: local angle, in degrees
    ret,        \* _preprocess_image: the value returned, or the error raised
    ppc,        \* _preprocess_image: position
    shape0,     \* history: (h, w) of the decoded input
    thresh0,    \* history: thresh as cv2.threshold returned it
    plog        \* history: the steps of _preprocess_image taken

dvars == <<env, path, fs, pc, engine, language, source, tmp_img, out_path,
           proc, text, exc, result, log, created, availAtCall>>
pvars == <<img, thresh, angle, ret, ppc, shape0, thresh0, plog>>
vars == <<dvars, pvars>>

---------------------------------------------------------------------------
(* Bounds *)

\* longest text an engine writes
MaxLen == 3
\* names the temporary directory can hold
MaxNames == 3
\* rows and columns of the largest raster
MaxH == 2
MaxW == 2

---------------------------------------------------------------------------
(* Domains *)

Procs == {1, 2}
TmpNames == <<"tmp_a", "tmp_b", "tmp_c", "tmp_d", "tmp_e", "tmp_f">>
Names == {TmpNames[i] : i \in 1 .. MaxNames}
Supported == {"gocr", "cuneiform"}
Engines == Supported \cup {"tesseract"}
Languages == {"eng", "rus"}
Sources == {"image", "garbage"}
Chars == {" ", "a"}
Texts == UNION {[1 .. n -> Chars] : n \in 0 .. MaxLen}
ExitCodes == {0, 1}
Stderrs == {"", "warning"}

None == "None"
NoFile == [kind |-> "absent", data |-> <<>>, by |-> 0]
NoProc == [state |-> "none", args |-> <<>>, stdout |-> <<>>, stderr |-> "",
           returncode |-> 0, wrote |-> <<>>]
NoResult == [kind |-> "none", value |-> <<>>, error |-> None]

\* a file some earlier call or another program left in the directory
Stale == [kind |-> "stale", data |-> <<>>, by |-> 0]
\* the directories a call can start in, up to the names of the files
StaleSets == {{TmpNames[i] : i \in 1 .. k} : k \in 0 .. MaxNames}

FullEnv == [procs |-> {1}, engines |-> Engines, languages |-> Languages,
            sources |-> Sources, texts |-> Texts, stderrs |-> Stderrs,
            codes |-> ExitCodes, stale |-> StaleSets]
ConcEnv == [procs |-> Procs, engines |-> Supported, languages |-> {"eng"},
            sources |-> {"image"}, texts |-> {<<" ", "a">>}, stderrs |-> {""},
            codes |-> {0}, stale |-> {{}}]

\* rasters: h rows of w pixels, values 0..255
Levels == {0, 255}
Raster(h, w) == [h : {h}, w : {w}, px : [1 .. h -> [1 .. w -> Levels]]]
Images == UNION {Raster(h, w) : h \in 1 .. MaxH, w \in 1 .. MaxW}
NoImage == [h |-> 0, w |-> 0, px |-> <<>>]
NoReturn == [kind |-> "none", value |-> NoImage, error |-> None]
\* the degrees cv2.minAreaRect reports: [-90, 0) before OpenCV 4.5.1,
\* (0, 90] since
RectAngles == -90 .. 90

---------------------------------------------------------------------------
(* Pure helpers *)

IsSpace(c) == c = " "

RECURSIVE LStrip(_)
LStrip(s) ==
    IF s = <<>> THEN s
    ELSE IF IsSpace(Head(s)) THEN LStrip(Tail(s)) ELSE s

RECURSIVE RStrip(_)
RStrip(s) ==
    IF s = <<>> THEN s
    ELSE IF IsSpace(s[Len(s)]) THEN RStrip(SubSeq(s, 1, Len(s) - 1)) ELSE s

StripLeftOnly(s) == LStrip(s)

\* str.strip() of lines 85 and 96
Strip(s) == RStrip(LStrip(s))

EngineAssumedAvailable(e, pth) == TRUE

\* engine_available: shutil.which(self.engine) is not None
EngineAvailable(e, pth) == e \in pth

ImreadNeverNone(s) == FALSE

\* cv2.imread returns None for a file that is no image
ImreadIsNone(s) == s = "garbage"

AnyName(f) == Names

\* the names tempfile.mkstemp can take: it opens with O_EXCL, so never a
\* name that exists
FreeNames(f) == {n \in Names : f[n] = NoFile}

RunRaisesOnExitCode(code) == IF code # 0 THEN "CalledProcessError" ELSE None

\* subprocess.run is called without check=True: no exit code raises
RunRaises(code) == None

\* the argument vectors of lines 81 and 91
GocrCmd(e, image) == <<e, image>>

CuneiformCmdEnglish(e, lang, out, image) ==
    <<e, "-l", "eng", "-f", "text", "-o", out, image>>

CuneiformCmd(e, lang, out, image) == <<e, "-l", lang, "-f", "text", "-o", out, image>>

DispatchTargetGocrDefault(e) ==
    IF e = "cuneiform" THEN "mkstemp_txt" ELSE "launch"

\* the branch of lines 79, 87 and 102 taken for an engine
DispatchTarget(e) ==
    IF e = "gocr" THEN "launch"
    ELSE IF e = "cuneiform" THEN "mkstemp_txt"
    ELSE "remove_img"

File(kind, data, by) == [kind |-> kind, data |-> data, by |-> by]

Raise(e) == [kind |-> "raise", value |-> <<>>, error |-> e]
Return(v) == [kind |-> "return", value |-> v, error |-> None]

---------------------------------------------------------------------------
(* The environment: executables come and go on PATH *)

PathChange(e) ==
    /\ e \in env.engines
    /\ path' = IF e \in path THEN path \ {e} ELSE path \cup {e}
    /\ UNCHANGED <<env, fs, pc, engine, language, source, tmp_img, out_path,
                   proc, text, exc, result, log, created, availAtCall>>
    /\ UNCHANGED pvars

---------------------------------------------------------------------------
(* recognize, lines 69-110, one action per step the environment or another *)
(* call can interleave with                                                *)

\* lines 69-75: enter recognize and check the engine's availability
Recognize(p, e, l, s) ==
    /\ p \in env.procs
    /\ pc[p] = "idle"
    /\ engine' = [engine EXCEPT ![p] = e]
    /\ language' = [language EXCEPT ![p] = l]
    /\ source' = [source EXCEPT ![p] = s]
    /\ tmp_img' = [tmp_img EXCEPT ![p] = None]
    /\ out_path' = [out_path EXCEPT ![p] = None]
    /\ proc' = [proc EXCEPT ![p] = NoProc]
    /\ text' = [text EXCEPT ![p] = <<>>]
    /\ exc' = [exc EXCEPT ![p] = None]
    /\ log' = [log EXCEPT ![p] = <<>>]
    /\ created' = [created EXCEPT ![p] = {}]
    /\ availAtCall' = [availAtCall EXCEPT ![p] = e \in path]
    /\ IF EngineAvailable(e, path)
       THEN /\ pc' = [pc EXCEPT ![p] = "preprocess"]
            /\ result' = [result EXCEPT ![p] = NoResult]
       ELSE /\ pc' = [pc EXCEPT ![p] = "done"]
            /\ result' = [result EXCEPT ![p] = Raise("FileNotFoundError")]
    /\ UNCHANGED <<env, path, fs>>
    /\ UNCHANGED pvars

\* line 63 (and 39-60): _save_temp_png normalises the image first
Preprocess(p) ==
    /\ pc[p] = "preprocess"
    /\ IF ImreadIsNone(source[p])
       THEN /\ pc' = [pc EXCEPT ![p] = "done"]
            /\ result' = [result EXCEPT ![p] = Raise("ValueError: Invalid image file")]
            /\ UNCHANGED log
       ELSE /\ pc' = [pc EXCEPT ![p] = "mkstemp_png"]
            /\ log' = [log EXCEPT ![p] = Append(@, "normalize")]
            /\ UNCHANGED result
    /\ UNCHANGED <<env, path, fs, engine, language, source, tmp_img, out_path,
                   proc, text, exc, created, availAtCall>>
    /\ UNCHANGED pvars

\* lines 64-65: tempfile.mkstemp(suffix='.png'); it raises FileExistsError
\* when no usable name is left; outside recognize's try
MkstempPng(p) ==
    /\ pc[p] = "mkstemp_png"
    /\ IF FreeNames(fs) = {}
       THEN /\ pc' = [pc EXCEPT ![p] = "done"]
            /\ result' = [result EXCEPT ![p] = Raise("FileExistsError")]
            /\ log' = [log EXCEPT ![p] = Append(@, "mkstemp_png_failed")]
            /\ UNCHANGED <<fs, tmp_img, created>>
       ELSE \E n \in FreeNames(fs) :
            /\ fs' = [fs EXCEPT ![n] = File("png", <<>>, p)]
            /\ tmp_img' = [tmp_img EXCEPT ![p] = n]
            /\ created' = [created EXCEPT ![p] = @ \cup {<<"png", n>>}]
            /\ log' = [log EXCEPT ![p] = Append(@, "mkstemp_png")]
            /\ pc' = [pc EXCEPT ![p] = "imwrite"]
            /\ UNCHANGED result
    /\ UNCHANGED <<env, path, engine, language, source, out_path, proc, text,
                   exc, availAtCall>>
    /\ UNCHANGED pvars

\* lines 66-67, 77-79, 87, 102-103: cv2.imwrite, then the try block is
\* entered and the engine's branch chosen
ImwriteOk(p) ==
    /\ pc[p] = "imwrite"
    /\ fs' = [fs EXCEPT ![tmp_img[p]] = File("png", <<"raster">>, p)]
    /\ log' = [log EXCEPT ![p] = Append(@, "imwrite")]
    /\ pc' = [pc EXCEPT ![p] = DispatchTarget(engine[p])]
    /\ exc' = [exc EXCEPT ![p] =
                  IF DispatchTarget(engine[p]) = "remove_img"
                  THEN "ValueError: Unsupported engine" ELSE None]
    /\ UNCHANGED <<env, path, engine, language, source, tmp_img, out_path,
                   proc, text, result, created, availAtCall>>
    /\ UNCHANGED pvars

\* line 66: cv2.imwrite raises; _save_temp_png has no handler and recognize
\* has not entered its try
ImwriteRaises(p) ==
    /\ pc[p] = "imwrite"
    /\ log' = [log EXCEPT ![p] = Append(@, "imwrite_failed")]
    /\ pc' = [pc EXCEPT ![p] = "done"]
    /\ result' = [result EXCEPT ![p] = Raise("cv2.error")]
    /\ UNCHANGED <<env, path, fs, engine, language, source, tmp_img, out_path,
                   proc, text, exc, created, availAtCall>>
    /\ UNCHANGED pvars

\* lines 89-90: tempfile.mkstemp(suffix='.txt'), inside the outer try
MkstempTxt(p) ==
    /\ pc[p] = "mkstemp_txt"
    /\ IF FreeNames(fs) = {}
       THEN /\ pc' = [pc EXCEPT ![p] = "remove_img"]
            /\ exc' = [exc EXCEPT ![p] = "FileExistsError"]
            /\ log' = [log EXCEPT ![p] = Append(@, "mkstemp_txt_failed")]
            /\ UNCHANGED <<fs, out_path, created>>
       ELSE \E n \in FreeNames(fs) :
            /\ fs' = [fs EXCEPT ![n] = File("txt", <<>>, p)]
            /\ out_path' = [out_path EXCEPT ![p] = n]
            /\ created' = [created EXCEPT ![p] = @ \cup {<<"txt", n>>}]
            /\ log' = [log EXCEPT ![p] = Append(@, "mkstemp_txt")]
            /\ pc' = [pc EXCEPT ![p] = "launch"]
            /\ UNCHANGED exc
    /\ UNCHANGED <<env, path, engine, language, source, tmp_img, proc, text,
                   result, availAtCall>>
    /\ UNCHANGED pvars

Cmd(p) ==
    IF engine[p] = "gocr" THEN GocrCmd(engine[p], tmp_img[p])
    ELSE CuneiformCmd(engine[p], language[p], out_path[p], tmp_img[p])

\* lines 81-84 and 91-92: subprocess.run starts the process, or raises
\* FileNotFoundError when the executable is gone; for cuneiform the raise
\* leaves line 92 before the inner try of line 94
Launch(p) ==
    /\ pc[p] = "launch"
    /\ IF EngineAvailable(engine[p], path)
       THEN /\ proc' = [proc EXCEPT ![p] = [NoProc EXCEPT !.state = "running",
                                                          !.args = Cmd(p)]]
            /\ log' = [log EXCEPT ![p] = Append(@, "launch")]
            /\ pc' = [pc EXCEPT ![p] = "wait"]
            /\ UNCHANGED exc
       ELSE /\ exc' = [exc EXCEPT ![p] = "FileNotFoundError"]
            /\ log' = [log EXCEPT ![p] = Append(@, "launch_failed")]
            /\ pc' = [pc EXCEPT ![p] = "remove_img"]
            /\ UNCHANGED proc
    /\ UNCHANGED <<env, path, fs, engine, language, source, tmp_img, out_path,
                   text, result, created, availAtCall>>
    /\ UNCHANGED pvars

\* lines 81-85: gocr exits; subprocess.run returns and stdout is stripped
GocrExit(p, out, err, code) ==
    /\ pc[p] = "wait"
    /\ engine[p] = "gocr"
    /\ out \in env.texts /\ err \in env.stderrs /\ code \in env.codes
    /\ proc' = [proc EXCEPT ![p] = [@ EXCEPT !.state = "exited", !.stdout = out,
                                             !.stderr = err, !.returncode = code]]
    /\ log' = [log EXCEPT ![p] = Append(@, "exit")]
    /\ IF RunRaises(code) = None
       THEN /\ text' = [text EXCEPT ![p] = Strip(out)]
            /\ UNCHANGED exc
       ELSE /\ exc' = [exc EXCEPT ![p] = RunRaises(code)]
            /\ UNCHANGED text
    /\ pc' = [pc EXCEPT ![p] = "remove_img"]
    /\ UNCHANGED <<env, path, fs, engine, language, source, tmp_img, out_path,
                   result, created, availAtCall>>
    /\ UNCHANGED pvars

\* line 92: cuneiform exits, having written what it recognised (nothing,
\* when it failed) to the file named after -o
CuneiformExit(p, out, err, code) ==
    /\ pc[p] = "wait"
    /\ engine[p] = "cuneiform"
    /\ out \in env.texts /\ err \in env.stderrs /\ code \in env.codes
    /\ fs' = [fs EXCEPT ![proc[p].args[7]] = File("txt", out, @.by)]
    /\ proc' = [proc EXCEPT ![p] = [@ EXCEPT !.state = "exited", !.wrote = out,
                                             !.stderr = err, !.returncode = code]]
    /\ log' = [log EXCEPT ![p] = Append(@, "exit")]
    /\ IF RunRaises(code) = None
       THEN /\ pc' = [pc EXCEPT ![p] = "read_out"]
            /\ UNCHANGED exc
       ELSE /\ pc' = [pc EXCEPT ![p] = "remove_img"]
            /\ exc' = [exc EXCEPT ![p] = RunRaises(code)]
    /\ UNCHANGED <<env, path, engine, language, source, tmp_img, out_path,
                   text, result, created, availAtCall>>
    /\ UNCHANGED pvars

\* lines 94-96: the output file is opened, read and stripped
ReadOutOk(p) ==
    /\ pc[p] = "read_out"
    /\ text' = [text EXCEPT ![p] = Strip(fs[out_path[p]].data)]
    /\ log' = [log EXCEPT ![p] = Append(@, "read")]
    /\ pc' = [pc EXCEPT ![p] = "remove_out"]
    /\ UNCHANGED <<env, path, fs, engine, language, source, tmp_img, out_path,
                   proc, exc, result, created, availAtCall>>
    /\ UNCHANGED pvars

\* lines 95-97: open or read raises; the inner finally still runs
ReadOutRaises(p) ==
    /\ pc[p] = "read_out"
    /\ exc' = [exc EXCEPT ![p] = "OSError"]
    /\ log' = [log EXCEPT ![p] = Append(@, "read_failed")]
    /\ pc' = [pc EXCEPT ![p] = "remove_out"]
    /\ UNCHANGED <<env, path, fs, engine, language, source, tmp_img, out_path,
                   proc, text, result, created, availAtCall>>
    /\ UNCHANGED pvars

\* lines 97-99: os.remove(out_path) in the inner finally
RemoveOutOk(p) ==
    /\ pc[p] = "remove_out"
    /\ fs' = [fs EXCEPT ![out_path[p]] = NoFile]
    /\ log' = [log EXCEPT ![p] = Append(@, "remove_out")]
    /\ pc' = [pc EXCEPT ![p] = "remove_img"]
    /\ UNCHANGED <<env, path, engine, language, source, tmp_img, out_path,
                   proc, text, exc, result, created, availAtCall>>
    /\ UNCHANGED pvars

\* lines 100-101: os.remove(out_path) raises OSError, which is swallowed
RemoveOutFails(p) ==
    /\ pc[p] = "remove_out"
    /\ log' = [log EXCEPT ![p] = Append(@, "remove_out_failed")]
    /\ pc' = [pc EXCEPT ![p] = "remove_img"]
    /\ UNCHANGED <<env, path, fs, engine, language, source, tmp_img, out_path,
                   proc, text, exc, result, created, availAtCall>>
    /\ UNCHANGED pvars

\* line 110, or the exception leaving recognize
Outcome(p) == IF exc[p] = None THEN Return(text[p]) ELSE Raise(exc[p])

\* lines 104-106 and 110: os.remove(tmp_img) in the outer finally, then the
\* call returns text or re-raises
RemoveImgOk(p) ==
    /\ pc[p] = "remove_img"
    /\ fs' = [fs EXCEPT ![tmp_img[p]] = NoFile]
    /\ log' = [log EXCEPT ![p] = Append(@, "remove_img")]
    /\ pc' = [pc EXCEPT ![p] = "done"]
    /\ result' = [result EXCEPT ![p] = Outcome(p)]
    /\ UNCHANGED <<env, path, engine, language, source, tmp_img, out_path,
                   proc, text, exc, created, availAtCall>>
    /\ UNCHANGED pvars

\* lines 107-110: os.remove(tmp_img) raises OSError, which is swallowed
RemoveImgFails(p) ==
    /\ pc[p] = "remove_img"
    /\ log' = [log EXCEPT ![p] = Append(@, "remove_img_failed")]
    /\ pc' = [pc EXCEPT ![p] = "done"]
    /\ result' = [result EXCEPT ![p] = Outcome(p)]
    /\ UNCHANGED <<env, path, fs, engine, language, source, tmp_img, out_path,
                   proc, text, exc, created, availAtCall>>
    /\ UNCHANGED pvars

---------------------------------------------------------------------------
(* Specifications of the dispatcher *)

PreIdle ==
    /\ img = NoImage /\ thresh = NoImage /\ angle = 0
    /\ ret = NoReturn /\ ppc = "off" /\ shape0 = <<0, 0>> /\ thresh0 = NoImage
    /\ plog = <<>>

InitWith(e) ==
    /\ env = e
    /\ path \in SUBSET e.engines
    /\ \E st \in e.stale : fs = [n \in Names |-> IF n \in st THEN Stale ELSE NoFile]
    /\ pc = [p \in Procs |-> "idle"]
    /\ engine = [p \in Procs |-> "gocr"]
    /\ language = [p \in Procs |-> "eng"]
    /\ source = [p \in Procs |-> "image"]
    /\ tmp_img = [p \in Procs |-> None]
    /\ out_path = [p \in Procs |-> None]
    /\ proc = [p \in Procs |-> NoProc]
    /\ text = [p \in Procs |-> <<>>]
    /\ exc = [p \in Procs |-> None]
    /\ result = [p \in Procs |-> NoResult]
    /\ log = [p \in Procs |-> <<>>]
    /\ created = [p \in Procs |-> {}]
    /\ availAtCall = [p \in Procs |-> FALSE]
    /\ PreIdle

Init == InitWith(FullEnv)
InitConc == InitWith(ConcEnv)

Next ==
    \/ \E e \in Engines : PathChange(e)
    \/ \E p \in Procs, e \in Engines, l \in Languages, s \in Sources :
           /\ e \in env.engines /\ l \in env.languages /\ s \in env.sources
           /\ Recognize(p, e, l, s)
    \/ \E p \in Procs : Preprocess(p)
    \/ \E p \in Procs : MkstempPng(p)
    \/ \E p \in Procs : ImwriteOk(p)
    \/ \E p \in Procs : ImwriteRaises(p)
    \/ \E p \in Procs : MkstempTxt(p)
    \/ \E p \in Procs : Launch(p)
    \/ \E p \in Procs, out \in Texts, err \in Stderrs, code \in ExitCodes :
           GocrExit(p, out, err, code)
    \/ \E p \in Procs, out \in Texts, err \in Stderrs, code \in ExitCodes :
           CuneiformExit(p, out, err, code)
    \/ \E p \in Procs : ReadOutOk(p)
    \/ \E p \in Procs : ReadOutRaises(p)
    \/ \E p \in Procs : RemoveOutOk(p)
    \/ \E p \in Procs : RemoveOutFails(p)
    \/ \E p \in Procs : RemoveImgOk(p)
    \/ \E p \in Procs : RemoveImgFails(p)

Spec == Init /\ [][Next]_vars
SpecConc == InitConc /\ [][Next]_vars

---------------------------------------------------------------------------
(* _preprocess_image, lines 39-60 *)

Cells(g) == (1 .. g.h) \X (1 .. g.w)

\* BORDER_REFLECT_101, the default border of cv2.GaussianBlur, 1-based
Reflect101(i, n) ==
    IF n = 1 THEN 1
    ELSE IF i < 1 THEN 2 - i
    ELSE IF i > n THEN 2 * n - i
    ELSE i

\* the 3 x 3 Gaussian kernel of ksize (3, 3), sigma 0: (1 2 1) x (1 2 1) / 16
KernelWeight(d) == IF d = 0 THEN 2 ELSE 1

BlurredPixel(g, r, c) ==
    LET at(dr, dc) == KernelWeight(dr) * KernelWeight(dc)
                          * g.px[Reflect101(r + dr, g.h)][Reflect101(c + dc, g.w)]
        row(dr) == at(dr, -1) + at(dr, 0) + at(dr, 1)
    IN  (row(-1) + row(0) + row(1) + 8) \div 16

\* line 44: cv2.GaussianBlur(img, (3, 3), 0)
GaussianBlur(g) ==
    [g EXCEPT !.px = [r \in 1 .. g.h |-> [c \in 1 .. g.w |-> BlurredPixel(g, r, c)]]]

\* the thresholds Otsu's method can choose for g, up to the binary raster
\* they give: 0 and every grey level of g
OtsuCandidates(g) == {0} \cup {g.px[rc[1]][rc[2]] : rc \in Cells(g)}

\* line 45: cv2.threshold(img, t, 255, THRESH_BINARY)
Threshold(g, t) ==
    [g EXCEPT !.px = [r \in 1 .. g.h |->
                         [c \in 1 .. g.w |-> IF g.px[r][c] > t THEN 255 ELSE 0]]]

\* line 48: np.column_stack(np.where(thresh > 0))
Coords(g) == {rc \in Cells(g) : g.px[rc[1]][rc[2]] > 0}

ForegroundAssumed(g) == TRUE

\* line 49: len(coords) > 0
HasForeground(g) == Cardinality(Coords(g)) > 0

\* lines 51-54
CorrectionAngle(a) == IF a < -45 THEN -(90 + a) ELSE -a

\* a pixel cv2.warpAffine interpolated: some value of 0..255 the model does
\* not compute
Interpolated == -1

\* lines 56-59: cv2.warpAffine(thresh, M, (w, h), ...): the result has
\* dsize = (width, height), so h rows of w pixels
WarpAffine(g, a, dsize) ==
    [h |-> dsize[2], w |-> dsize[1],
     px |-> [r \in 1 .. dsize[2] |-> [c \in 1 .. dsize[1] |-> Interpolated]]]

\* lines 40-42: cv2.imread, and the check for None
Imread ==
    /\ ppc = "imread"
    /\ IF img = NoImage
       THEN /\ ppc' = "raised"
            /\ ret' = [kind |-> "raise", value |-> NoImage,
                       error |-> "ValueError: Invalid image file"]
            /\ UNCHANGED <<shape0, plog>>
       ELSE /\ ppc' = "blur"
            /\ shape0' = <<img.h, img.w>>
            /\ plog' = Append(plog, "imread")
            /\ UNCHANGED ret
    /\ UNCHANGED <<img, thresh, angle, thresh0>>
    /\ UNCHANGED dvars

\* line 44
Blur ==
    /\ ppc = "blur"
    /\ img' = GaussianBlur(img)
    /\ plog' = Append(plog, "blur")
    /\ ppc' = "threshold"
    /\ UNCHANGED <<thresh, angle, ret, shape0, thresh0>>
    /\ UNCHANGED dvars

\* line 45; img is not read again and the model forgets it
OtsuThreshold ==
    /\ ppc = "threshold"
    /\ \E t \in OtsuCandidates(img) :
           /\ thresh' = Threshold(img, t)
           /\ thresh0' = Threshold(img, t)
    /\ img' = NoImage
    /\ plog' = Append(plog, "threshold")
    /\ ppc' = "coords"
    /\ UNCHANGED <<angle, ret, shape0>>
    /\ UNCHANGED dvars

\* lines 48-50: the foreground's minimum-area rectangle and its angle;
\* cv2.minAreaRect raises on an empty point set
MinAreaRect ==
    /\ ppc = "coords"
    /\ HasForeground(thresh)
    /\ IF Coords(thresh) = {}
       THEN /\ ppc' = "raised"
            /\ ret' = [kind |-> "raise", value |-> NoImage, error |-> "cv2.error"]
            /\ UNCHANGED <<angle, plog>>
       ELSE /\ \E a \in RectAngles : angle' = a
            /\ plog' = Append(plog, "minAreaRect")
            /\ ppc' = "angle"
            /\ UNCHANGED ret
    /\ UNCHANGED <<img, thresh, shape0, thresh0>>
    /\ UNCHANGED dvars

\* lines 51-54
NormalizeAngle ==
    /\ ppc = "angle"
    /\ angle' = CorrectionAngle(angle)
    /\ plog' = Append(plog, "angle")
    /\ ppc' = "warp"
    /\ UNCHANGED <<img, thresh, ret, shape0, thresh0>>
    /\ UNCHANGED dvars

\* lines 55-59: (h, w) = thresh.shape[:2]; rotate about the centre
Deskew ==
    /\ ppc = "warp"
    /\ thresh' = WarpAffine(thresh, angle, <<thresh.w, thresh.h>>)
    /\ plog' = Append(plog, "warpAffine")
    /\ ppc' = "return"
    /\ UNCHANGED <<img, angle, ret, shape0, thresh0>>
    /\ UNCHANGED dvars

\* line 60, reached after the deskew or past it (line 49 false)
ReturnThresh ==
    /\ \/ ppc = "return"
       \/ ppc = "coords" /\ ~HasForeground(thresh)
    /\ ret' = [kind |-> "return", value |-> thresh, error |-> None]
    /\ ppc' = "returned"
    /\ UNCHANGED <<img, thresh, angle, shape0, thresh0, plog>>
    /\ UNCHANGED dvars

DispatchIdle ==
    /\ env = ConcEnv /\ path = {}
    /\ fs = [n \in Names |-> NoFile]
    /\ pc = [p \in Procs |-> "idle"]
    /\ engine = [p \in Procs |-> "gocr"]
    /\ language = [p \in Procs |-> "eng"]
    /\ source = [p \in Procs |-> "image"]
    /\ tmp_img = [p \in Procs |-> None]
    /\ out_path = [p \in Procs |-> None]
    /\ proc = [p \in Procs |-> NoProc]
    /\ text = [p \in Procs |-> <<>>]
    /\ exc = [p \in Procs |-> None]
    /\ result = [p \in Procs |-> NoResult]
    /\ log = [p \in Procs |-> <<>>]
    /\ created = [p \in Procs |-> {}]
    /\ availAtCall = [p \in Procs |-> FALSE]

InitPre ==
    /\ img \in Images \cup {NoImage}
    /\ thresh = NoImage /\ angle = 0 /\ ret = NoReturn /\ ppc = "imread"
    /\ shape0 = <<0, 0>> /\ thresh0 = NoImage /\ plog = <<>>
    /\ DispatchIdle

NextPre ==
    \/ Imread
    \/ Blur
    \/ OtsuThreshold
    \/ MinAreaRect
    \/ NormalizeAngle
    \/ Deskew
    \/ ReturnThresh

SpecPre == InitPre /\ [][NextPre]_vars

---------------------------------------------------------------------------
(* Properties *)

Has(l, ev) == \E i \in 1 .. Len(l) : l[i] = ev

\* t is s without its leading and trailing whitespace
IsTrimOf(t, s) ==
    \E i \in 0 .. Len(s), j \in 0 .. Len(s) :
        /\ i + j <= Len(s)
        /\ t = SubSeq(s, i + 1, Len(s) - j)
        /\ \A k \in 1 .. i : s[k] = " "
        /\ \A k \in (Len(s) - j + 1) .. Len(s) : s[k] = " "
        /\ t # <<>> => t[1] # " " /\ t[Len(t)] # " "

EngineNotFound == Raise("FileNotFoundError")
InvalidImage == Raise("ValueError: Invalid image file")
UnsupportedEngine == Raise("ValueError: Unsupported engine")

\* C1: when recognize has returned or raised, none of the temporary files
\* the call created exists any more, on every exit path.
NoTempFileSurvives ==
    \A p \in Procs :
        pc[p] = "done" => \A f \in created[p] : fs[f[2]] = NoFile

\* C2: when the engine's executable is not on PATH as recognize is called,
\* the call fails with FileNotFoundError and has normalised nothing,
\* created no temporary file and spawned no process.
EngineNotFoundCreatesNothing ==
    \A p \in Procs :
        (pc[p] # "idle" /\ ~availAtCall[p]) =>
            /\ pc[p] = "done"
            /\ result[p] = EngineNotFound
            /\ log[p] = <<>>
            /\ created[p] = {}
            /\ tmp_img[p] = None /\ out_path[p] = None
            /\ proc[p] = NoProc

EngineNotFoundReached ==
    \E p \in Procs :
        /\ pc[p] = "done" /\ ~availAtCall[p]
        /\ engine[p] = "cuneiform" /\ source[p] = "image"
        /\ result[p] = EngineNotFound

\* C3, as claimed: every engine id other than gocr and cuneiform, on PATH
\* or not, ends in the unsupported-engine error with no process spawned.
UnsupportedEngineAlwaysRejected ==
    \A p \in Procs :
        (pc[p] = "done" /\ engine[p] \notin Supported) =>
            /\ result[p] = UnsupportedEngine
            /\ proc[p].state = "none"

\* C3, amended: an engine id other than gocr and cuneiform never spawns a
\* process and its call always fails; the failure is the unsupported-engine
\* error exactly when the executable was on PATH at the call, the image
\* decoded and the temporary raster was created and written.
UnsupportedEngineRejected ==
    \A p \in Procs :
        engine[p] \notin Supported =>
            /\ proc[p].state = "none"
            /\ pc[p] = "done" =>
                   /\ result[p].kind = "raise"
                   /\ result[p] = UnsupportedEngine <=>
                          (availAtCall[p] /\ source[p] = "image" /\ Has(log[p], "imwrite"))
                   /\ ~availAtCall[p] => result[p] = EngineNotFound

UnsupportedEngineReached ==
    \E p \in Procs :
        /\ pc[p] = "done" /\ engine[p] = "tesseract"
        /\ result[p] = UnsupportedEngine

\* C4: with gocr, once the process has run and exited, recognize returns
\* its standard output without leading and trailing whitespace, whatever
\* the exit code and the error stream.
GocrReturnsTrimmedStdout ==
    \A p \in Procs :
        (pc[p] = "done" /\ engine[p] = "gocr" /\ proc[p].state = "exited") =>
            /\ result[p].kind = "return"
            /\ IsTrimOf(result[p].value, proc[p].stdout)

GocrFailingRunReturned ==
    \E p \in Procs :
        /\ pc[p] = "done" /\ engine[p] = "gocr"
        /\ proc[p].returncode = 1 /\ proc[p].stderr = "warning"
        /\ proc[p].stdout = <<" ", "a", " ">>
        /\ result[p] = Return(<<"a">>)

CuneiformOrders ==
    {<<"normalize", "mkstemp_png", "imwrite", "mkstemp_txt", "launch", "exit",
       r, o, i>> :
        r \in {"read", "read_failed"},
        o \in {"remove_out", "remove_out_failed"},
        i \in {"remove_img", "remove_img_failed"}}

CuneiformProtocol(p) ==
    /\ log[p] \in CuneiformOrders
    /\ proc[p].args = <<"cuneiform", "-l", language[p], "-f", "text", "-o",
                        out_path[p], tmp_img[p]>>
    /\ IF Has(log[p], "read")
       THEN result[p].kind = "return" /\ IsTrimOf(result[p].value, proc[p].wrote)
       ELSE result[p].kind = "raise"

\* C5, as claimed: with cuneiform, once the process has run and exited,
\* the steps were taken in the order create output file, run, read, delete
\* output file, delete raster, return the trimmed content, and the output
\* file no longer exists when the call returns.
CuneiformOutputFileGone ==
    \A p \in Procs :
        (pc[p] = "done" /\ engine[p] = "cuneiform" /\ proc[p].state = "exited") =>
            /\ CuneiformProtocol(p)
            /\ fs[out_path[p]] = NoFile

\* C5, amended: the same order, arguments and result; the output file no
\* longer exists when the call returns, also when reading it raised,
\* unless its deletion failed (the OSError recognize swallows).
CuneiformOutputFileGoneUnlessRemoveFailed ==
    \A p \in Procs :
        (pc[p] = "done" /\ engine[p] = "cuneiform" /\ proc[p].state = "exited") =>
            /\ CuneiformProtocol(p)
            /\ ~Has(log[p], "remove_out_failed") => fs[out_path[p]] = NoFile

CuneiformReadFailedFileGone ==
    \E p \in Procs :
        /\ pc[p] = "done" /\ engine[p] = "cuneiform"
        /\ proc[p].state = "exited" /\ proc[p].returncode = 1
        /\ language[p] = "rus"
        /\ Has(log[p], "read_failed") /\ Has(log[p], "remove_out")
        /\ fs[out_path[p]] = NoFile

PastCheck(p) ==
    /\ pc[p] = "done" /\ availAtCall[p]
    /\ engine[p] \in Supported /\ source[p] = "image"

\* C6, as claimed: an executable that vanished between the availability
\* check and the launch gives the engine-not-found error, and no other
\* error is raised once the check has passed for a supported engine and a
\* decodable image.
LaunchFailureOnlyError ==
    \A p \in Procs :
        PastCheck(p) =>
            /\ Has(log[p], "launch_failed") => result[p] = EngineNotFound
            /\ result[p].kind = "raise" => Has(log[p], "launch_failed")

\* C6, amended: the vanished executable gives the engine-not-found error;
\* past the check, a call with a supported engine and a decodable image
\* raises only for that or for a failed file operation of its own
\* (creating a temporary file, writing the raster, reading the output
\* file), never for what the engine exits with or prints.
LaunchOrFileFailureOnlyErrors ==
    \A p \in Procs :
        PastCheck(p) =>
            /\ Has(log[p], "launch_failed") => result[p] = EngineNotFound
            /\ result[p].kind = "raise" =>
                   \/ Has(log[p], "launch_failed")
                   \/ Has(log[p], "mkstemp_png_failed")
                   \/ Has(log[p], "mkstemp_txt_failed")
                   \/ Has(log[p], "imwrite_failed")
                   \/ Has(log[p], "read_failed")
            /\ result[p].kind # "none"

EngineVanishedBeforeLaunch ==
    \E p \in Procs :
        /\ PastCheck(p) /\ engine[p] = "cuneiform"
        /\ Has(log[p], "launch_failed")
        /\ result[p] = EngineNotFound

\* the files a call in flight still has to use
Held(p) ==
    (IF pc[p] \in {"imwrite", "mkstemp_txt", "launch", "wait", "read_out",
                   "remove_out", "remove_img"}
     THEN {<<"png", tmp_img[p]>>} ELSE {})
    \cup
    (IF pc[p] \in {"launch", "wait", "read_out", "remove_out"} /\ out_path[p] # None
     THEN {<<"txt", out_path[p]>>} ELSE {})

HeldNames(p) == {f[2] : f \in Held(p)}

\* C7: a call in flight has created at most one raster and at most one
\* output file (none for gocr); the files two interleaved calls hold have
\* pairwise distinct names, and every file a call is about to write, pass
\* to its engine, read or delete exists and was created by that call.
TempFilesNotShared ==
    \A p \in Procs :
        /\ Cardinality({f \in created[p] : f[1] = "png"}) <= 1
        /\ Cardinality({f \in created[p] : f[1] = "txt"}) <= 1
        /\ engine[p] = "gocr" => {f \in created[p] : f[1] = "txt"} = {}
        /\ Cardinality(HeldNames(p)) = Cardinality(Held(p))
        /\ \A f \in Held(p) :
               /\ f \in created[p]
               /\ fs[f[2]].kind = f[1]
               /\ fs[f[2]].by = p
        /\ proc[p].state = "running" =>
               \A i \in 1 .. Len(proc[p].args) :
                   proc[p].args[i] \in Names => proc[p].args[i] \in HeldNames(p)
        /\ \A q \in Procs \ {p} : HeldNames(p) \cap HeldNames(q) = {}

TwoCallsHoldFiles ==
    \E p \in Procs, q \in Procs :
        /\ p # q
        /\ pc[p] = "wait" /\ engine[p] = "gocr"
        /\ pc[q] = "read_out"
        /\ Cardinality(HeldNames(p) \cup HeldNames(q)) = 3

\* C8: the correction angle _preprocess_image rotates by lies within
\* [-45, 45] degrees for every angle in [-90, 90] the minimum-area
\* rectangle reports.
CorrectionWithin45 ==
    Has(plog, "angle") => (-45 <= angle /\ angle <= 45)

NoForeground(g) == \A r \in 1 .. g.h, c \in 1 .. g.w : g.px[r][c] = 0

\* C9: a thresholded image without foreground pixel is returned unchanged,
\* with neither skew estimation nor rotation and without raising; with a
\* foreground pixel the rotation is applied; either way the returned
\* raster has the height and width of the decoded input.
BlankSkipsDeskewShapeKept ==
    /\ ppc = "raised" => plog = <<>>
    /\ ppc = "returned" =>
           /\ ret.kind = "return"
           /\ <<ret.value.h, ret.value.w>> = shape0
           /\ IF NoForeground(thresh0)
              THEN /\ ret.value = thresh0
                   /\ plog = <<"imread", "blur", "threshold">>
              ELSE plog = <<"imread", "blur", "threshold", "minAreaRect",
                            "angle", "warpAffine">>

BlankRasterReturned ==
    /\ ppc = "returned"
    /\ NoForeground(thresh0)
    /\ shape0 = <<1, 2>>
    /\ ret.value = thresh0

\* C10: with the engine on PATH, a source that does not decode fails with
\* the invalid-image error before any temporary file is created or any
\* process spawned, for unsupported engine ids too; the engine-not-found
\* error comes before both.
InvalidImagePrecedence ==
    \A p \in Procs :
        (pc[p] # "idle" /\ source[p] = "garbage") =>
            /\ created[p] = {} /\ proc[p] = NoProc
            /\ pc[p] \in {"preprocess", "done"}
            /\ pc[p] = "done" =>
                   result[p] = IF availAtCall[p] THEN InvalidImage ELSE EngineNotFound

InvalidImageBeforeUnsupported ==
    \E p \in Procs :
        /\ pc[p] = "done" /\ source[p] = "garbage"
        /\ engine[p] = "tesseract" /\ availAtCall[p]
        /\ result[p] = InvalidImage

=============================================================================
